---- MODULE Spec2Model ----
(***************************************************************************)
(* Shift-override resolution and attendance marking of the guard           *)
(* attendance system (src/app.py, src/models.py).                          *)
(*                                                                         *)
(* The relational store is the state: the Guard and Location tables, the   *)
(* Attendance and DeletedAttendance tables (multisets of rows: neither     *)
(* table has a uniqueness constraint besides the surrogate id, and no      *)
(* handler reads the id's value), the ShiftOverride table (rows are never  *)
(* deleted, so a row's id is its position) and the server's calendar date. *)
(* Every request handler is one atomic action on the store.  `last` is the *)
(* response of the last request a specification observes.  `comments` is   *)
(* the GuardComment table (rows are never deleted).  `inflight` holds, for *)
(* each server worker, the request it is in the middle of: the handlers    *)
(* read and write the store in separate statements, and two workers may    *)
(* interleave between the lookup and the commit.                           *)
(* `notifications` is the Notification table, in insertion order.          *)
(***************************************************************************)
EXTENDS Integers, Sequences, FiniteSets, Bags, TLC

\* ------------------------------------------------------------------ bounds
MaxDay == 2             \* days the calendar may reach
MaxAttendance == 2      \* rows the Attendance table may hold
MaxDeleted == 1         \* rows the DeletedAttendance table may hold
MaxOverrides == 2       \* rows the ShiftOverride table may hold
MaxComments == 2        \* rows the GuardComment table may hold
MaxNotifications == 2   \* rows the Notification table may hold

Days == 1..MaxDay

\* ------------------------------------------------------------ seeded rows
\* two locations of init_database (the first one is seeded out of rotation)
\* and two of the guards of create_sample_guards
LocationIds == {1, 2}
GuardIds == {1, 2}

\* --------------------------------------------------------------- constants
Shifts == {"day", "night"}
StatusValues == {"present", "absent", ""}
NotesValues == {"", "late"}
ReasonValues == {"relocation", "cover"}
NULL == "NULL"
ATTENDANCE_WRITE_ROLES == {"Supervisor", "Business Support Officer"}
DEFAULT_USERS ==
    { <<"admin", "Administrator">>, <<"supervisor", "Supervisor">>,
      <<"bso", "Business Support Officer">> }

\* the Flask session: empty, or the username and role stored at login
Anonymous == [logged_in |-> FALSE, username |-> NULL, role |-> NULL]
Sessions ==
    {Anonymous} \cup
    { [logged_in |-> TRUE, username |-> u[1], role |-> u[2]] : u \in DEFAULT_USERS }

\* the server's worker threads, and a worker between two requests
Workers == {"w1", "w2"}
Idle == [pc |-> "idle"]

VARIABLES guard, location, attendance, deleted, overrides, today, last,
          comments, inflight, notifications

vars == <<guard, location, attendance, deleted, overrides, today, last,
          comments, inflight, notifications>>

\* ------------------------------------------------------------------ schema
GuardRow == [location_id : LocationIds, shift_type : Shifts, is_active : BOOLEAN]

AttendanceRow ==
    [guard_id : GuardIds, date : Days, shift : Shifts, status : StatusValues,
     notes : NotesValues \cup {NULL}, marked_by : ATTENDANCE_WRITE_ROLES]

ShiftOverrideRow ==
    [guard_id : GuardIds, original_shift : Shifts, override_shift : Shifts,
     original_location_id : LocationIds, override_location_id : LocationIds,
     date : Days, reason : ReasonValues, created_by : STRING, is_active : BOOLEAN]

NoRow ==
    [guard_id |-> 0, date |-> 0, shift |-> NULL, status |-> NULL,
     notes |-> NULL, marked_by |-> NULL]

\* Python truthiness of a status value
Truthy(v) == v # "" /\ v # NULL

\* ------------------------------------------------------------- role gate
\* the gate with its two tests in the other order
check_write_access_role_first(sess) ==
    IF sess.role \notin ATTENDANCE_WRITE_ROLES THEN 403
    ELSE IF ~sess.logged_in THEN 401
    ELSE 0

check_write_access(sess) ==
    IF ~sess.logged_in THEN 401
    ELSE IF sess.role \notin ATTENDANCE_WRITE_ROLES THEN 403
    ELSE 0

IsAdministrator(sess) == sess.logged_in /\ sess.role = "Administrator"

\* ------------------------------------------------------------- queries
\* Attendance.query.filter_by(guard_id, date, shift): the matching rows
AttendanceFor(g, d, s) ==
    { r \in BagToSet(attendance) : r.guard_id = g /\ r.date = d /\ r.shift = s }

\* number of live Attendance rows under one natural key
AttendanceCount(g, d, s) ==
    BagCardinality([r \in AttendanceFor(g, d, s) |-> attendance[r]])

\* ShiftOverride.query.filter_by(guard_id, date, is_active=True): row ids
ActiveOverrides(g, d) ==
    { i \in 1..Len(overrides) :
        /\ overrides[i].guard_id = g
        /\ overrides[i].date = d
        /\ overrides[i].is_active }

\* .first() on a query without ORDER BY returns any matching row: the
\* possible outcomes of the per-guard override lookup, 0 when none matches
OverridePicks ==
    { f \in [GuardIds -> 0..Len(overrides)] :
        \A g \in GuardIds :
            IF ActiveOverrides(g, today) = {} THEN f[g] = 0
            ELSE f[g] \in ActiveOverrides(g, today) }

\* the possible outcomes of the per-guard attendance lookup for a shift
AttendancePicks(s) ==
    { f \in [GuardIds -> BagToSet(attendance) \cup {NoRow}] :
        \A g \in GuardIds :
            IF AttendanceFor(g, today, s) = {} THEN f[g] = NoRow
            ELSE f[g] \in AttendanceFor(g, today, s) }

\* Guard.query.filter_by(location_id, shift_type).all(), in id order
HomeGuards(l, s) ==
    LET AtHome(g) == guard[g].location_id = l /\ guard[g].shift_type = s
    IN  SelectSeq([g \in 1..Cardinality(GuardIds) |-> g], AtHome)

\* ------------------------------------------------------- roster (get_guards)
\* one element of the JSON list; a key the handler does not set is NULL
RegularEntry(g, ov, att) ==
    [id |-> g,
     status |-> IF att # NoRow THEN att.status ELSE NULL,
     notes |-> IF att # NoRow THEN att.notes ELSE "",
     default_shift |-> guard[g].shift_type,
     current_shift |-> IF ov # 0 THEN overrides[ov].override_shift
                       ELSE guard[g].shift_type,
     has_override |-> ov # 0,
     is_temporary |-> FALSE,
     override_reason |-> IF ov # 0 THEN overrides[ov].reason ELSE NULL,
     is_shift_changed |->
        IF ov # 0 THEN overrides[ov].original_shift # overrides[ov].override_shift
        ELSE NULL,
     is_location_changed |->
        IF ov # 0
        THEN overrides[ov].original_location_id # overrides[ov].override_location_id
        ELSE NULL,
     original_location |-> NULL]

TemporaryEntry(i, att) ==
    [id |-> overrides[i].guard_id,
     status |-> IF att # NoRow THEN att.status ELSE NULL,
     notes |-> IF att # NoRow THEN att.notes ELSE "",
     default_shift |-> guard[overrides[i].guard_id].shift_type,
     current_shift |-> overrides[i].override_shift,
     has_override |-> TRUE,
     is_temporary |-> TRUE,
     override_reason |-> overrides[i].reason,
     is_shift_changed |-> overrides[i].original_shift # overrides[i].override_shift,
     is_location_changed |-> TRUE,
     original_location |-> overrides[i].original_location_id]

\* the first loop without the skip of relocated guards
RegularGuardsPart_no_skip(location_id, shift, op, ap) ==
    LET regular_guards == HomeGuards(location_id, shift)
        Loop[k \in 0..Len(regular_guards)] ==
            IF k = 0 THEN <<>>
            ELSE LET g == regular_guards[k]
                 IN  Append(Loop[k - 1], RegularEntry(g, op[g], ap[g]))
    IN  Loop[Len(regular_guards)]

\* the first loop: the guards whose home is (location_id, shift), except
\* those whose override for today points to another location
RegularGuardsPart(location_id, shift, op, ap) ==
    LET regular_guards == HomeGuards(location_id, shift)
        Loop[k \in 0..Len(regular_guards)] ==
            IF k = 0 THEN <<>>
            ELSE LET g == regular_guards[k]
                     ov == op[g]
                 IN  IF ov # 0 /\ overrides[ov].override_location_id # location_id
                     THEN Loop[k - 1]
                     ELSE Append(Loop[k - 1], RegularEntry(g, ov, ap[g]))
    IN  Loop[Len(regular_guards)]

\* temp_overrides without the filter on the date
IsTempOverride_any_date(i, location_id, shift) ==
    /\ overrides[i].override_location_id = location_id
    /\ overrides[i].override_shift = shift
    /\ overrides[i].is_active

\* temp_overrides: the active overrides of today that point to (location_id, shift)
IsTempOverride(i, location_id, shift) ==
    /\ overrides[i].override_location_id = location_id
    /\ overrides[i].override_shift = shift
    /\ overrides[i].date = today
    /\ overrides[i].is_active

\* the second loop without the test for a guard already in the result
RosterBody_no_dedup(location_id, shift, op, ap) ==
    LET Loop[k \in 0..Len(overrides)] ==
            IF k = 0 THEN RegularGuardsPart(location_id, shift, op, ap)
            ELSE IF ~IsTempOverride(k, location_id, shift) THEN Loop[k - 1]
                 ELSE Append(Loop[k - 1],
                             TemporaryEntry(k, ap[overrides[k].guard_id]))
    IN  Loop[Len(overrides)]

\* the second loop appended to the result of the first
RosterBody(location_id, shift, op, ap) ==
    LET Loop[k \in 0..Len(overrides)] ==
            IF k = 0 THEN RegularGuardsPart(location_id, shift, op, ap)
            ELSE LET result == Loop[k - 1]
                 IN  IF ~IsTempOverride(k, location_id, shift)
                     THEN result
                     ELSE IF \E j \in 1..Len(result) :
                                result[j].id = overrides[k].guard_id
                          THEN result
                          ELSE Append(result,
                                      TemporaryEntry(k, ap[overrides[k].guard_id]))
    IN  Loop[Len(overrides)]

\* the response of GET /api/guards/<location_id>/<shift>
get_guards(sess, location_id, shift, op, ap) ==
    IF ~sess.logged_in THEN [code |-> 401, body |-> <<>>]
    ELSE IF sess.role \notin ATTENDANCE_WRITE_ROLES THEN [code |-> 403, body |-> <<>>]
    ELSE IF location_id \notin LocationIds THEN [code |-> 404, body |-> <<>>]
    ELSE IF ~location[location_id].is_accessible THEN [code |-> 403, body |-> <<>>]
    ELSE [code |-> 200, body |-> RosterBody(location_id, shift, op, ap)]

\* ------------------------------- GET /api/guard-shift-info/<guard_id>
\* The handler reads no session key.  ov is the row the override lookup
\* returns, 0 when the guard has no active override today; locations are
\* reported by id here, by name in the response.
get_guard_shift_info(sess, guard_id, ov) ==
    IF guard_id \notin GuardIds THEN [code |-> 404, body |-> <<>>]
    ELSE [code |-> 200,
          body |->
            [guard_id |-> guard_id,
             default_shift |-> guard[guard_id].shift_type,
             default_location |-> guard[guard_id].location_id,
             has_override |-> ov # 0,
             current_shift |-> IF ov # 0 THEN overrides[ov].override_shift
                               ELSE guard[guard_id].shift_type,
             current_location |->
                IF ov # 0 /\ overrides[ov].override_location_id \in LocationIds
                THEN overrides[ov].override_location_id
                ELSE guard[guard_id].location_id,
             override_reason |-> IF ov # 0 THEN overrides[ov].reason ELSE NULL,
             is_location_changed |->
                IF ov # 0
                THEN overrides[ov].original_location_id # overrides[ov].override_location_id
                ELSE NULL,
             is_shift_changed |->
                IF ov # 0
                THEN overrides[ov].original_shift # overrides[ov].override_shift
                ELSE NULL]]

\* --------------------------------------------- attendance view (view_attendance)
\* the rows of the Attendance x Guard x Location join that pass the
\* location filter: the join goes through the guard's home location
view_attendance(location_filter) ==
    { r \in BagToSet(attendance) : guard[r.guard_id].location_id = location_filter }

\* ------------------------------------------------------------------- Init
\* what the last request was and how it was answered: the handler, the
\* status code and what the body of the response tells
Response(op, code, out) == [op |-> op, code |-> code, out |-> out]

\* the seeded database (init_database): the first location is out of
\* rotation, the two guards are active at the second location, one on the
\* day shift and one on the night shift, the other tables are empty
Init ==
    /\ guard = [g \in GuardIds |->
                  [location_id |-> 2,
                   shift_type |-> IF g = 1 THEN "day" ELSE "night",
                   is_active |-> TRUE]]
    /\ location = [l \in LocationIds |-> [is_accessible |-> l # 1]]
    /\ attendance = EmptyBag
    /\ deleted = EmptyBag
    /\ overrides = <<>>
    /\ today = 1
    /\ last = Response("init", 0, <<>>)
    /\ comments = <<>>
    /\ notifications = <<>>
    /\ inflight = [w \in Workers |-> Idle]

\* ------------------------------------------- POST /api/mark-attendance
\* the status code, decided before any write.  Guard.query.get_or_404 is
\* called inside the try block: the NotFound it raises for an unknown guard
\* is caught by `except Exception`, which rolls back and answers 500
mark_attendance_code(sess, guard_id) ==
    IF check_write_access(sess) # 0 THEN check_write_access(sess)
    ELSE IF guard_id \notin GuardIds THEN 500
    ELSE IF ~location[guard[guard_id].location_id].is_accessible THEN 403
    ELSE 200

\* the row written by the UPDATE branch
MarkUpdated(r, status, notes, sess) ==
    [r EXCEPT !.status = status, !.notes = notes, !.marked_by = sess.role]

\* the row written by the CREATE branch (date defaults to today)
MarkCreated(guard_id, status, shift, notes, sess) ==
    [guard_id |-> guard_id, date |-> today, shift |-> shift, status |-> status,
     notes |-> notes, marked_by |-> sess.role]

mark_attendance(sess, guard_id, status, shift, notes) ==
    LET code == mark_attendance_code(sess, guard_id)
        existing == AttendanceFor(guard_id, today, shift)
    IN  /\ IF code # 200 THEN attendance' = attendance
           ELSE IF existing # {}
           THEN \E r \in existing :
                    attendance' = (attendance (-) SetToBag({r}))
                                  (+) SetToBag({MarkUpdated(r, status, notes, sess)})
           ELSE /\ BagCardinality(attendance) < MaxAttendance
                /\ attendance' = attendance
                      (+) SetToBag({MarkCreated(guard_id, status, shift, notes, sess)})
        /\ UNCHANGED <<guard, location, deleted, overrides, today>>

\* "Attendance updated for <guard>" or "Attendance recorded for <guard>",
\* with the shift of the request
mark_attendance_response(sess, guard_id, shift) ==
    LET code == mark_attendance_code(sess, guard_id)
    IN  IF code # 200 THEN Response("mark", code, <<>>)
        ELSE IF AttendanceFor(guard_id, today, shift) # {}
        THEN Response("mark", code, <<"updated", guard_id, shift>>)
        ELSE Response("mark", code, <<"recorded", guard_id, shift>>)

\* ------------------------------------------------ POST /api/bulk-mark
\* the status code of a bulk mark that does not look at the accessibility
bulk_mark_code_any_location(sess, location_id) ==
    IF check_write_access(sess) # 0 THEN check_write_access(sess)
    ELSE IF location_id \notin LocationIds THEN 404
    ELSE 200

bulk_mark_code(sess, location_id) ==
    IF check_write_access(sess) # 0 THEN check_write_access(sess)
    ELSE IF location_id \notin LocationIds THEN 404
    ELSE IF ~location[location_id].is_accessible THEN 403
    ELSE 200

\* the row of a guard without one
BulkCreated(guard_id, status, shift, sess) ==
    [guard_id |-> guard_id, date |-> today, shift |-> shift, status |-> status,
     notes |-> NULL, marked_by |-> sess.role]

\* the row of a guard whose row has no status yet
BulkUpdated(r, status, sess) ==
    [r EXCEPT !.status = status, !.marked_by = sess.role]

\* the loop over the guards of the static roster; pick[g] is the row the
\* lookup returns for guard g
BulkLoop(guards, pick, status, shift, sess) ==
    LET Loop[k \in 0..Len(guards)] ==
            IF k = 0
            THEN [att |-> attendance, marked_count |-> 0, skipped_count |-> 0]
            ELSE LET acc == Loop[k - 1]
                     g == guards[k]
                     r == pick[g]
                 IN  IF r # NoRow /\ Truthy(r.status)
                     THEN [acc EXCEPT !.skipped_count = @ + 1]
                     ELSE IF r # NoRow
                     THEN [acc EXCEPT
                             !.att = (@ (-) SetToBag({r}))
                                     (+) SetToBag({BulkUpdated(r, status, sess)}),
                             !.marked_count = @ + 1]
                     ELSE [acc EXCEPT
                             !.att = @ (+) SetToBag(
                                         {BulkCreated(g, status, shift, sess)}),
                             !.marked_count = @ + 1]
    IN  Loop[Len(guards)]

\* a bulk mark over the guards working at the location today: the home
\* guards not relocated to another location, and the guards an override
\* sends there
bulk_mark_attendance_resolved(sess, location_id, shift, status, pick) ==
    LET code == bulk_mark_code(sess, location_id)
        Works(g) ==
            \/ /\ guard[g].location_id = location_id
               /\ guard[g].shift_type = shift
               /\ \A i \in ActiveOverrides(g, today) :
                     overrides[i].override_location_id = location_id
            \/ \E i \in ActiveOverrides(g, today) :
                  /\ overrides[i].override_location_id = location_id
                  /\ overrides[i].override_shift = shift
        working == SelectSeq([g \in 1..Cardinality(GuardIds) |-> g], Works)
        res == BulkLoop(working, pick, status, shift, sess)
    IN  /\ IF code # 200 THEN attendance' = attendance
           ELSE /\ BagCardinality(res.att) <= MaxAttendance
                /\ attendance' = res.att
        /\ UNCHANGED <<guard, location, deleted, overrides, today>>

bulk_mark_attendance(sess, location_id, shift, status, pick) ==
    LET code == bulk_mark_code(sess, location_id)
        res == BulkLoop(HomeGuards(location_id, shift), pick, status, shift, sess)
    IN  /\ IF code # 200 THEN attendance' = attendance
           ELSE /\ BagCardinality(res.att) <= MaxAttendance
                /\ attendance' = res.att
        /\ UNCHANGED <<guard, location, deleted, overrides, today>>

\* "<marked_count> guards marked successfully. (<skipped_count> skipped ...)"
bulk_mark_response(sess, location_id, shift, status, pick) ==
    LET code == bulk_mark_code(sess, location_id)
        res == BulkLoop(HomeGuards(location_id, shift), pick, status, shift, sess)
    IN  IF code # 200 THEN Response("bulk", code, <<>>)
        ELSE Response("bulk", code, <<res.marked_count, res.skipped_count>>)

\* ------------------------------ DELETE /api/admin/attendance/<attendance_id>
\* the snapshot kept in the deleted-records log
DeletedRecord(r, sess, reason) ==
    [guard_id |-> r.guard_id, date |-> r.date, shift |-> r.shift,
     status |-> r.status, notes |-> r.notes, marked_by |-> r.marked_by,
     deleted_by |-> sess.username, deletion_reason |-> reason]

admin_delete_attendance(sess, r) ==
    /\ r \in BagToSet(attendance)
    /\ IF ~IsAdministrator(sess)
       THEN UNCHANGED <<attendance, deleted>>
       ELSE /\ BagCardinality(deleted) < MaxDeleted
            /\ deleted' = deleted
                  (+) SetToBag({DeletedRecord(r, sess, "No reason provided")})
            /\ attendance' = attendance (-) SetToBag({r})
    /\ UNCHANGED <<guard, location, overrides, today>>

\* ------------------------------ POST /api/admin/attendance/undo/<deleted_id>
\* the Attendance row rebuilt from the snapshot
RestoredAttendance(d) ==
    [guard_id |-> d.guard_id, date |-> d.date, shift |-> d.shift,
     status |-> d.status, notes |-> d.notes, marked_by |-> d.marked_by]

admin_undo_delete_attendance(sess, d) ==
    /\ d \in BagToSet(deleted)
    /\ IF ~IsAdministrator(sess)
       THEN UNCHANGED <<attendance, deleted>>
       ELSE /\ BagCardinality(attendance) < MaxAttendance
            /\ attendance' = attendance (+) SetToBag({RestoredAttendance(d)})
            /\ deleted' = deleted (-) SetToBag({d})
    /\ UNCHANGED <<guard, location, overrides, today>>

\* every administrator route answers 403 to anybody else
admin_response(op, sess) ==
    IF IsAdministrator(sess) THEN Response(op, 200, <<>>) ELSE Response(op, 403, <<>>)

\* ----------------------------------------- POST /api/create-shift-override
\* an omitted override_location_id arrives as 0 (falsy)
create_shift_override_code(sess, guard_id) ==
    IF check_write_access(sess) # 0 THEN check_write_access(sess)
    ELSE IF guard_id \notin GuardIds THEN 404
    ELSE 200

\* `override_location_id or guard.location_id`
EffectiveLocation(guard_id, override_location_id) ==
    IF override_location_id # 0 THEN override_location_id
    ELSE guard[guard_id].location_id

\* an update in place that takes the guard's home again
OverrideUpdated_resnapshot(o, guard_id, override_shift, override_location_id, reason, sess) ==
    [o EXCEPT !.original_shift = guard[guard_id].shift_type,
              !.original_location_id = guard[guard_id].location_id,
              !.override_shift = override_shift,
              !.override_location_id = EffectiveLocation(guard_id, override_location_id),
              !.reason = reason,
              !.created_by = sess.username]

\* the existing row after the update-in-place branch
OverrideUpdated(o, guard_id, override_shift, override_location_id, reason, sess) ==
    [o EXCEPT !.override_shift = override_shift,
              !.override_location_id = EffectiveLocation(guard_id, override_location_id),
              !.reason = reason,
              !.created_by = sess.username]

\* the row inserted by the create branch
OverrideCreated(guard_id, override_shift, override_location_id, reason, target_date, sess) ==
    [guard_id |-> guard_id,
     original_shift |-> guard[guard_id].shift_type,
     override_shift |-> override_shift,
     original_location_id |-> guard[guard_id].location_id,
     override_location_id |-> EffectiveLocation(guard_id, override_location_id),
     date |-> target_date,
     reason |-> reason,
     created_by |-> sess.username,
     is_active |-> TRUE]

\* the handler without the lookup of an existing active override
create_shift_override_insert_only(sess, guard_id, override_shift, override_location_id, reason, target_date) ==
    LET code == create_shift_override_code(sess, guard_id)
    IN  /\ IF code # 200 THEN overrides' = overrides
           ELSE /\ Len(overrides) < MaxOverrides
                /\ overrides' = Append(overrides,
                       OverrideCreated(guard_id, override_shift,
                                       override_location_id, reason, target_date, sess))
        /\ UNCHANGED <<guard, location, attendance, deleted, today>>

create_shift_override(sess, guard_id, override_shift, override_location_id, reason, target_date) ==
    LET code == create_shift_override_code(sess, guard_id)
        existing == ActiveOverrides(guard_id, target_date)
    IN  /\ IF code # 200 THEN overrides' = overrides
           ELSE IF existing # {}
           THEN \E i \in existing :
                    overrides' = [overrides EXCEPT ![i] =
                        OverrideUpdated(@, guard_id, override_shift,
                                        override_location_id, reason, sess)]
           ELSE /\ Len(overrides) < MaxOverrides
                /\ overrides' = Append(overrides,
                       OverrideCreated(guard_id, override_shift,
                                       override_location_id, reason, target_date, sess))
        /\ UNCHANGED <<guard, location, attendance, deleted, today>>

\* what the request was and how it was answered: the status code, the
\* branch that was taken (the message is the same for both) and the payload
create_shift_override_response(sess, guard_id, override_shift, override_location_id, reason, target_date) ==
    LET code == create_shift_override_code(sess, guard_id)
        payload == <<sess.username, guard_id, override_shift,
                     override_location_id, reason, target_date>>
    IN  IF code # 200 THEN Response("create", code, <<>>)
        ELSE IF ActiveOverrides(guard_id, target_date) # {}
        THEN Response("create", code, <<"updated">> \o payload)
        ELSE Response("create", code, <<"inserted">> \o payload)

\* ------------------------------ DELETE /api/remove-shift-override/<guard_id>
remove_shift_override_code(sess, guard_id) ==
    IF check_write_access(sess) # 0 THEN check_write_access(sess)
    ELSE IF ActiveOverrides(guard_id, today) = {} THEN 404
    ELSE 200

\* the handler deleting the row it found
remove_shift_override_hard_delete(sess, guard_id) ==
    LET code == remove_shift_override_code(sess, guard_id)
    IN  /\ IF code # 200 THEN overrides' = overrides
           ELSE \E i \in ActiveOverrides(guard_id, today) :
                    overrides' = SubSeq(overrides, 1, i - 1)
                                 \o SubSeq(overrides, i + 1, Len(overrides))
        /\ UNCHANGED <<guard, location, attendance, deleted, today>>

\* the handler looking for an active override of the guard on any date
remove_shift_override_any_date(sess, guard_id) ==
    LET code == remove_shift_override_code(sess, guard_id)
        active == { i \in 1..Len(overrides) :
                      overrides[i].guard_id = guard_id /\ overrides[i].is_active }
    IN  /\ IF check_write_access(sess) # 0 \/ active = {} THEN overrides' = overrides
           ELSE \E i \in active :
                    overrides' = [overrides EXCEPT ![i].is_active = FALSE]
        /\ UNCHANGED <<guard, location, attendance, deleted, today>>

remove_shift_override(sess, guard_id) ==
    LET code == remove_shift_override_code(sess, guard_id)
    IN  /\ IF code # 200 THEN overrides' = overrides
           ELSE \E i \in ActiveOverrides(guard_id, today) :
                    overrides' = [overrides EXCEPT ![i].is_active = FALSE]
        /\ UNCHANGED <<guard, location, attendance, deleted, today>>

remove_shift_override_response(sess, guard_id) ==
    Response("remove", remove_shift_override_code(sess, guard_id), <<>>)

\* ------------------------------------------ PUT /api/admin/guards/<guard_id>
admin_update_guard(sess, guard_id, location_id, shift_type) ==
    /\ IF ~IsAdministrator(sess) THEN guard' = guard
       ELSE guard' = [guard EXCEPT ![guard_id].location_id = location_id,
                                      ![guard_id].shift_type = shift_type]
    /\ UNCHANGED <<location, attendance, deleted, overrides, today>>

\* ------------------------- POST /api/admin/guards/<guard_id>/deactivate
admin_deactivate_guard(sess, guard_id) ==
    /\ IF ~IsAdministrator(sess) THEN guard' = guard
       ELSE guard' = [guard EXCEPT ![guard_id].is_active = FALSE]
    /\ UNCHANGED <<location, attendance, deleted, overrides, today>>

\* ------------------------- POST /api/admin/guards/<guard_id>/reactivate
admin_reactivate_guard(sess, guard_id) ==
    /\ IF ~IsAdministrator(sess) THEN guard' = guard
       ELSE guard' = [guard EXCEPT ![guard_id].is_active = TRUE]
    /\ UNCHANGED <<location, attendance, deleted, overrides, today>>

\* ------------------------- POST /api/admin/locations/<location_id>/toggle
admin_toggle_location(sess, location_id) ==
    /\ IF ~IsAdministrator(sess) THEN location' = location
       ELSE location' = [location EXCEPT ![location_id].is_accessible = ~@]
    /\ UNCHANGED <<guard, attendance, deleted, overrides, today>>

\* ------------------------------------------------- malformed payloads
\* the keys of the JSON payload that each handler reads with data[...]
RequiredFields(op) ==
    CASE op = "mark" -> {"guard_id", "status", "shift"}
      [] op = "bulk" -> {"location_id", "shift", "status"}
      [] op = "create" -> {"guard_id", "override_shift", "reason"}

\* and those it reads with data.get(...)
OptionalFields(op) ==
    CASE op = "mark" -> {"notes"}
      [] op = "bulk" -> {}
      [] op = "create" -> {"override_location_id", "date"}

\* the payloads that lack a required key
MalformedPayloads(op) ==
    { fields \in SUBSET (RequiredFields(op) \cup OptionalFields(op)) :
        ~(RequiredFields(op) \subseteq fields) }

\* the status code of a request whose payload lacks a required key: the
\* role gate comes first; mark_attendance catches the KeyError and answers
\* 400; the other two handlers read the payload outside any try block, and
\* the KeyError leaves the view as an unhandled exception (500)
malformed_code(op, sess, fields) ==
    IF check_write_access(sess) # 0 THEN check_write_access(sess)
    ELSE IF op = "mark" THEN 400
    ELSE 500

\* the KeyError is raised before the first query: nothing is written
malformed_request(op, sess, fields) ==
    /\ fields \in MalformedPayloads(op)
    /\ last' = Response(op, malformed_code(op, sess, fields), <<>>)
    /\ UNCHANGED <<guard, location, attendance, deleted, overrides, today,
                   comments, inflight, notifications>>

\* ------------------------------------------ POST /api/add-guard-comment
\* A GuardComment row: the text and the type of a comment are stored and
\* returned, and read by no decision; a row's id is its position.
add_guard_comment_code(sess, guard_id) ==
    IF ~sess.logged_in THEN 401
    ELSE IF guard_id \notin GuardIds THEN 404
    ELSE 200

add_guard_comment(sess, guard_id) ==
    LET code == add_guard_comment_code(sess, guard_id)
    IN  /\ IF code # 200 THEN comments' = comments
           ELSE /\ Len(comments) < MaxComments
                /\ comments' = Append(comments,
                       [guard_id |-> guard_id, created_by |-> sess.username,
                        is_active |-> TRUE])
        /\ UNCHANGED <<guard, location, attendance, deleted, overrides, today>>

\* ------------------------- DELETE /api/delete-guard-comment/<comment_id>
delete_guard_comment_code(sess, comment_id) ==
    IF ~sess.logged_in THEN 401
    ELSE IF comment_id \notin 1..Len(comments) THEN 404
    ELSE IF comments[comment_id].created_by # sess.username THEN 403
    ELSE 200

\* the handler without the test on the creator
delete_guard_comment_by_anyone(sess, comment_id) ==
    /\ IF ~sess.logged_in \/ comment_id \notin 1..Len(comments)
       THEN comments' = comments
       ELSE comments' = [comments EXCEPT ![comment_id].is_active = FALSE]
    /\ UNCHANGED <<guard, location, attendance, deleted, overrides, today>>

delete_guard_comment(sess, comment_id) ==
    LET code == delete_guard_comment_code(sess, comment_id)
    IN  /\ IF code # 200 THEN comments' = comments
           ELSE comments' = [comments EXCEPT ![comment_id].is_active = FALSE]
        /\ UNCHANGED <<guard, location, attendance, deleted, overrides, today>>

\* ------------------------------------------------ notify_attendance_overdue
\* The users with role 'Supervisor'.
SupervisorUsers == { u \in DEFAULT_USERS : u[2] = "Supervisor" }

\* Attendance.query.filter_by(date=today, shift=..., marked_by=...).count()
MarkedByCount(shift, marked_by) ==
    BagCardinality([r \in { x \in BagToSet(attendance) :
                              /\ x.date = today
                              /\ x.shift = shift
                              /\ x.marked_by = marked_by } |-> attendance[r]])

\* the Notification row create_notification inserts for an overdue shift
OverdueNotification(u, shift, minutes_overdue) ==
    [recipient_username |-> u[1],
     recipient_role |-> u[2],
     notification_type |-> IF minutes_overdue >= 120 THEN "urgent" ELSE "alert",
     category |-> "attendance",
     reference_type |-> NULL,
     shift |-> shift]

\* the rows the function inserts for one supervisor: due[s] tells whether
\* the clock has passed the overdue time of shift s
OverdueRows(u, minutes_overdue, due) ==
    (IF due["day"] /\ MarkedByCount("day", u[1]) = 0
     THEN <<OverdueNotification(u, "day", minutes_overdue)>> ELSE <<>>)
    \o (IF due["night"] /\ MarkedByCount("night", u[1]) = 0
        THEN <<OverdueNotification(u, "night", minutes_overdue)>> ELSE <<>>)

notify_attendance_overdue(minutes_overdue, due) ==
    LET users == CHOOSE q \in [1..Cardinality(SupervisorUsers) -> SupervisorUsers] :
                     \A u \in SupervisorUsers : \E k \in DOMAIN q : q[k] = u
        Loop[k \in 0..Cardinality(SupervisorUsers)] ==
            IF k = 0 THEN notifications
            ELSE Loop[k - 1] \o OverdueRows(users[k], minutes_overdue, due)
    IN  /\ Len(Loop[Cardinality(SupervisorUsers)]) <= MaxNotifications
        /\ notifications' = Loop[Cardinality(SupervisorUsers)]
        /\ UNCHANGED <<guard, location, attendance, deleted, overrides, today>>

\* ------------------------------------------------------- the calendar
\* a midnight at which the overrides of the day that ends are deactivated
Midnight_expiring ==
    /\ today < MaxDay
    /\ today' = today + 1
    /\ overrides' = [i \in 1..Len(overrides) |->
                        IF overrides[i].date = today
                        THEN [overrides[i] EXCEPT !.is_active = FALSE]
                        ELSE overrides[i]]
    /\ UNCHANGED <<guard, location, attendance, deleted, last,
                   comments, inflight, notifications>>

\* date.today() moves on at midnight
Midnight ==
    /\ today < MaxDay
    /\ today' = today + 1
    /\ UNCHANGED <<guard, location, attendance, deleted, overrides, last,
                   comments, inflight, notifications>>

\* ------------------------------------------------------------ requests
\* a request by one of the sessions SS, with its response observed in `last`
WriterSessions == { s \in Sessions : check_write_access(s) = 0 }
AdminSessions == { s \in Sessions : IsAdministrator(s) }
Supervisor == [logged_in |-> TRUE, username |-> "supervisor", role |-> "Supervisor"]
Administrator == [logged_in |-> TRUE, username |-> "admin", role |-> "Administrator"]
SupportOfficer ==
    [logged_in |-> TRUE, username |-> "bso", role |-> "Business Support Officer"]

MarkRequest(SS) ==
    \E sess \in SS, g \in GuardIds, st \in StatusValues,
       sh \in Shifts, n \in NotesValues :
        /\ mark_attendance(sess, g, st, sh, n)
        /\ last' = mark_attendance_response(sess, g, sh)
        /\ UNCHANGED <<comments, inflight, notifications>>

BulkRequest(SS) ==
    \E sess \in SS, l \in LocationIds, sh \in Shifts, st \in StatusValues :
        \E pick \in AttendancePicks(sh) :
            /\ bulk_mark_attendance(sess, l, sh, st, pick)
            /\ last' = bulk_mark_response(sess, l, sh, st, pick)
            /\ UNCHANGED <<comments, inflight, notifications>>

DeleteRequest(SS) ==
    \E sess \in SS, r \in BagToSet(attendance) :
        /\ admin_delete_attendance(sess, r)
        /\ last' = admin_response("delete", sess)
        /\ UNCHANGED <<comments, inflight, notifications>>

UndoRequest(SS) ==
    \E sess \in SS, d \in BagToSet(deleted) :
        /\ admin_undo_delete_attendance(sess, d)
        /\ last' = admin_response("undo", sess)
        /\ UNCHANGED <<comments, inflight, notifications>>

CreateOverrideRequest(SS, RS, DS) ==
    \E sess \in SS, g \in GuardIds, sh \in Shifts,
       l \in LocationIds \cup {0}, rs \in RS, d \in DS :
        /\ create_shift_override(sess, g, sh, l, rs, d)
        /\ last' = create_shift_override_response(sess, g, sh, l, rs, d)
        /\ UNCHANGED <<comments, inflight, notifications>>

RemoveOverrideRequest(SS) ==
    \E sess \in SS, g \in GuardIds :
        /\ remove_shift_override(sess, g)
        /\ last' = remove_shift_override_response(sess, g)
        /\ UNCHANGED <<comments, inflight, notifications>>

UpdateGuardRequest(SS) ==
    \E sess \in SS, g \in GuardIds, l \in LocationIds, sh \in Shifts :
        /\ admin_update_guard(sess, g, l, sh)
        /\ last' = admin_response("update_guard", sess)
        /\ UNCHANGED <<comments, inflight, notifications>>

DeactivateRequest(SS) ==
    \E sess \in SS, g \in GuardIds :
        /\ admin_deactivate_guard(sess, g)
        /\ last' = admin_response("deactivate", sess)
        /\ UNCHANGED <<comments, inflight, notifications>>

ReactivateRequest(SS) ==
    \E sess \in SS, g \in GuardIds :
        /\ admin_reactivate_guard(sess, g)
        /\ last' = admin_response("reactivate", sess)
        /\ UNCHANGED <<comments, inflight, notifications>>

ToggleLocationRequest(SS) ==
    \E sess \in SS, l \in LocationIds :
        /\ admin_toggle_location(sess, l)
        /\ last' = admin_response("toggle", sess)
        /\ UNCHANGED <<comments, inflight, notifications>>

\* ------------------------------------------ requests served concurrently
\* A handler runs its SELECT and its COMMIT as separate statements, and
\* neither table has a constraint on the natural key.  A worker that has run
\* the lookup holds what it found until it commits; a worker that has
\* committed keeps the keys it inserted until it takes its next request.
Busy(w) == inflight[w].pc = "found"

\* the stored row behind an object loaded earlier: the UPDATE is by primary
\* key, and no handler changes guard_id, date or shift of a row
StoredRow(r) ==
    IF r \in BagToSet(attendance) THEN {r}
    ELSE AttendanceFor(r.guard_id, r.date, r.shift)

\* mark_attendance up to and including the lookup of the existing row
mark_lookup(w, sess, guard_id, status, shift, notes) ==
    /\ ~Busy(w)
    /\ mark_attendance_code(sess, guard_id) = 200
    /\ \E r \in IF AttendanceFor(guard_id, today, shift) = {} THEN {NoRow}
                ELSE AttendanceFor(guard_id, today, shift) :
           inflight' = [inflight EXCEPT ![w] =
               [pc |-> "found", op |-> "mark", sess |-> sess,
                guard_id |-> guard_id, status |-> status, shift |-> shift,
                notes |-> notes, seen |-> r]]
    /\ UNCHANGED <<guard, location, attendance, deleted, overrides, today,
                   last, comments, notifications>>

\* a commit that looks the key up again before it writes
mark_commit_recheck(w) ==
    LET q == inflight[w]
        existing == AttendanceFor(q.guard_id, today, q.shift)
    IN  /\ Busy(w) /\ q.op = "mark"
        /\ IF existing # {}
           THEN \E r \in existing :
                    attendance' = (attendance (-) SetToBag({r}))
                        (+) SetToBag({MarkUpdated(r, q.status, q.notes, q.sess)})
           ELSE /\ BagCardinality(attendance) < MaxAttendance
                /\ attendance' = attendance (+) SetToBag(
                       {MarkCreated(q.guard_id, q.status, q.shift, q.notes, q.sess)})
        /\ inflight' = [inflight EXCEPT ![w] =
               [pc |-> "done", op |-> "mark",
                inserted |-> IF q.seen = NoRow
                             THEN {<<q.guard_id, today, q.shift>>} ELSE {}]]
        /\ last' = Response("mark", 200,
               <<IF q.seen = NoRow THEN "recorded" ELSE "updated",
                 q.guard_id, q.shift>>)
        /\ UNCHANGED <<guard, location, deleted, overrides, today, comments, notifications>>

\* the rest of mark_attendance: the branch on what the lookup found, the
\* write and the commit
mark_commit(w) ==
    LET q == inflight[w]
    IN  /\ Busy(w) /\ q.op = "mark"
        /\ IF q.seen # NoRow
           THEN \E r \in StoredRow(q.seen) :
                    attendance' = (attendance (-) SetToBag({r}))
                        (+) SetToBag({MarkUpdated(r, q.status, q.notes, q.sess)})
           ELSE /\ BagCardinality(attendance) < MaxAttendance
                /\ attendance' = attendance (+) SetToBag(
                       {MarkCreated(q.guard_id, q.status, q.shift, q.notes, q.sess)})
        /\ inflight' = [inflight EXCEPT ![w] =
               [pc |-> "done", op |-> "mark",
                inserted |-> IF q.seen = NoRow
                             THEN {<<q.guard_id, today, q.shift>>} ELSE {}]]
        /\ last' = Response("mark", 200,
               <<IF q.seen = NoRow THEN "recorded" ELSE "updated",
                 q.guard_id, q.shift>>)
        /\ UNCHANGED <<guard, location, deleted, overrides, today, comments, notifications>>

\* bulk_mark_attendance up to the end of its loop: the lookups of all the
\* guards of the static roster (the session's writes are not yet flushed)
bulk_lookup(w, sess, location_id, shift, status) ==
    /\ ~Busy(w)
    /\ bulk_mark_code(sess, location_id) = 200
    /\ \E pick \in AttendancePicks(shift) :
           inflight' = [inflight EXCEPT ![w] =
               [pc |-> "found", op |-> "bulk", sess |-> sess,
                location_id |-> location_id, status |-> status,
                shift |-> shift, pick |-> pick]]
    /\ UNCHANGED <<guard, location, attendance, deleted, overrides, today,
                   last, comments, notifications>>

\* the commit of bulk_mark_attendance: the rows the loop decided to insert
\* or to complete are written
bulk_commit(w) ==
    LET q == inflight[w]
        guards == HomeGuards(q.location_id, q.shift)
        res == BulkLoop(guards, q.pick, q.status, q.shift, q.sess)
    IN  /\ Busy(w) /\ q.op = "bulk"
        /\ \A k \in 1..Len(guards) :
               q.pick[guards[k]] # NoRow
                   => q.pick[guards[k]] \in BagToSet(attendance)
        /\ BagCardinality(res.att) <= MaxAttendance
        /\ attendance' = res.att
        /\ inflight' = [inflight EXCEPT ![w] =
               [pc |-> "done", op |-> "bulk",
                inserted |-> { <<guards[k], today, q.shift>> :
                                 k \in { j \in 1..Len(guards) :
                                           q.pick[guards[j]] = NoRow } }]]
        /\ last' = Response("bulk", 200, <<res.marked_count, res.skipped_count>>)
        /\ UNCHANGED <<guard, location, deleted, overrides, today, comments, notifications>>

\* create_shift_override up to and including the lookup of an active
\* override for the guard and the date; seen is the row id, 0 when none
create_lookup(w, sess, guard_id, override_shift, override_location_id, reason, target_date) ==
    /\ ~Busy(w)
    /\ create_shift_override_code(sess, guard_id) = 200
    /\ \E i \in IF ActiveOverrides(guard_id, target_date) = {} THEN {0}
                ELSE ActiveOverrides(guard_id, target_date) :
           inflight' = [inflight EXCEPT ![w] =
               [pc |-> "found", op |-> "create", sess |-> sess,
                guard_id |-> guard_id, override_shift |-> override_shift,
                override_location_id |-> override_location_id,
                reason |-> reason, date |-> target_date, seen |-> i]]
    /\ UNCHANGED <<guard, location, attendance, deleted, overrides, today,
                   last, comments, notifications>>

\* a commit that looks the active override up again before it writes
create_commit_recheck(w) ==
    LET q == inflight[w]
        existing == ActiveOverrides(q.guard_id, q.date)
    IN  /\ Busy(w) /\ q.op = "create"
        /\ IF existing # {}
           THEN \E i \in existing :
                    overrides' = [overrides EXCEPT ![i] =
                        OverrideUpdated(@, q.guard_id, q.override_shift,
                                        q.override_location_id, q.reason, q.sess)]
           ELSE /\ Len(overrides) < MaxOverrides
                /\ overrides' = Append(overrides,
                       OverrideCreated(q.guard_id, q.override_shift,
                           q.override_location_id, q.reason, q.date, q.sess))
        /\ inflight' = [inflight EXCEPT ![w] =
               [pc |-> "done", op |-> "create",
                inserted |-> IF q.seen = 0 THEN {<<q.guard_id, q.date>>} ELSE {}]]
        /\ last' = Response("create", 200,
               <<IF q.seen = 0 THEN "inserted" ELSE "updated", q.sess.username,
                 q.guard_id, q.override_shift, q.override_location_id,
                 q.reason, q.date>>)
        /\ UNCHANGED <<guard, location, attendance, deleted, today, comments, notifications>>

\* the rest of create_shift_override: the branch on what the lookup found,
\* the write and the commit.  The UPDATE is by row id and sets the four
\* assigned columns; the Guard row read before the lookup is the one in the
\* store, since no request served meanwhile writes the Guard table
create_commit(w) ==
    LET q == inflight[w]
    IN  /\ Busy(w) /\ q.op = "create"
        /\ IF q.seen # 0
           THEN overrides' = [overrides EXCEPT ![q.seen] =
                    OverrideUpdated(@, q.guard_id, q.override_shift,
                                    q.override_location_id, q.reason, q.sess)]
           ELSE /\ Len(overrides) < MaxOverrides
                /\ overrides' = Append(overrides,
                       OverrideCreated(q.guard_id, q.override_shift,
                           q.override_location_id, q.reason, q.date, q.sess))
        /\ inflight' = [inflight EXCEPT ![w] =
               [pc |-> "done", op |-> "create",
                inserted |-> IF q.seen = 0 THEN {<<q.guard_id, q.date>>} ELSE {}]]
        /\ last' = Response("create", 200,
               <<IF q.seen = 0 THEN "inserted" ELSE "updated", q.sess.username,
                 q.guard_id, q.override_shift, q.override_location_id,
                 q.reason, q.date>>)
        /\ UNCHANGED <<guard, location, attendance, deleted, today, comments, notifications>>

\* ------------------------------------------------------- specifications
\* The roster.  Overrides for today and tomorrow, changes of a guard's
\* home, locations going in and out of rotation; the claims checked here
\* are about the roster resolved in each state, and no response is observed.
RosterCreate ==
    \E g \in GuardIds, sh \in Shifts, l \in LocationIds \cup {0}, d \in Days :
        /\ create_shift_override(Supervisor, g, sh, l, "relocation", d)
        /\ UNCHANGED <<last, comments, inflight, notifications>>

RosterRemove ==
    \E g \in GuardIds :
        /\ remove_shift_override(Supervisor, g)
        /\ UNCHANGED <<last, comments, inflight, notifications>>

RosterUpdateGuard ==
    \E g \in GuardIds, l \in LocationIds, sh \in Shifts :
        /\ admin_update_guard(Administrator, g, l, sh)
        /\ UNCHANGED <<last, comments, inflight, notifications>>

RosterToggleLocation ==
    \E l \in LocationIds :
        /\ admin_toggle_location(Administrator, l)
        /\ UNCHANGED <<last, comments, inflight, notifications>>

NextRoster ==
    \/ RosterCreate
    \/ RosterRemove
    \/ RosterUpdateGuard
    \/ RosterToggleLocation

SpecRoster == Init /\ [][NextRoster]_vars

\* Override management over the days of the calendar: the writers' requests,
\* and requests that the role gate turns away.
NextOverride ==
    \/ CreateOverrideRequest(WriterSessions, ReasonValues, Days)
    \/ CreateOverrideRequest(Sessions \ WriterSessions, {"cover"}, {today})
    \/ RemoveOverrideRequest(Sessions)
    \/ Midnight

SpecOverride == Init /\ [][NextOverride]_vars

\* The attendance ledger of one day: the supervisor's single marks, the
\* support officer's bulk marks, the administrator's delete and restore.
NextLedger ==
    \/ MarkRequest({Supervisor})
    \/ BulkRequest({SupportOfficer})
    \/ DeleteRequest(AdminSessions)
    \/ UndoRequest(AdminSessions)

SpecLedger == Init /\ [][NextLedger]_vars

\* Guard administration: resignation and return, moves, locations in rotation.
NextStaff ==
    \/ DeactivateRequest(Sessions)
    \/ ReactivateRequest(Sessions)
    \/ UpdateGuardRequest(Sessions)
    \/ ToggleLocationRequest(Sessions)

SpecStaff == Init /\ [][NextStaff]_vars

\* A day of duty: the supervisor relocates guards for today and marks
\* attendance while locations go in and out of rotation.
NextDuty ==
    \/ CreateOverrideRequest({Supervisor}, {"relocation"}, {today})
    \/ MarkRequest({Supervisor})
    \/ ToggleLocationRequest(AdminSessions)

SpecDuty == Init /\ [][NextDuty]_vars

\* The gates of the mutating handlers: every kind of caller, guard ids that
\* exist and one that does not, payloads with and without their required keys.
GateSessions == {Anonymous, Administrator, Supervisor}

GateMark ==
    \E sess \in GateSessions, g \in GuardIds \cup {0}, sh \in Shifts :
        /\ mark_attendance(sess, g, "present", sh, "")
        /\ last' = mark_attendance_response(sess, g, sh)
        /\ UNCHANGED <<comments, inflight, notifications>>

GateBulk ==
    \E sess \in GateSessions, l \in LocationIds, sh \in Shifts :
        \E pick \in AttendancePicks(sh) :
            /\ bulk_mark_attendance(sess, l, sh, "absent", pick)
            /\ last' = bulk_mark_response(sess, l, sh, "absent", pick)
            /\ UNCHANGED <<comments, inflight, notifications>>

GateCreate ==
    \E sess \in GateSessions, g \in GuardIds, sh \in Shifts :
        /\ create_shift_override(sess, g, sh, 0, "cover", today)
        /\ last' = create_shift_override_response(sess, g, sh, 0, "cover", today)
        /\ UNCHANGED <<comments, inflight, notifications>>

GateMalformed ==
    \E sess \in GateSessions, op \in {"mark", "bulk", "create"} :
        \E fields \in MalformedPayloads(op) :
            malformed_request(op, sess, fields)

NextGate ==
    \/ GateMark
    \/ GateBulk
    \/ GateCreate
    \/ RemoveOverrideRequest(GateSessions)
    \/ GateMalformed

SpecGate == Init /\ [][NextGate]_vars

\* Two workers marking attendance at the same time: the lookups and the
\* commits of their requests interleave.
MarkedValues == {"present", "absent"}

RaceMarkLookup ==
    \E w \in Workers, g \in GuardIds, st \in MarkedValues, sh \in Shifts :
        mark_lookup(w, Supervisor, g, st, sh, "")

RaceMarkCommit == \E w \in Workers : mark_commit(w)

RaceBulkLookup ==
    \E w \in Workers, l \in LocationIds, sh \in Shifts, st \in MarkedValues :
        bulk_lookup(w, SupportOfficer, l, sh, st)

RaceBulkCommit == \E w \in Workers : bulk_commit(w)

NextMarkRace ==
    \/ RaceMarkLookup
    \/ RaceMarkCommit
    \/ RaceBulkLookup
    \/ RaceBulkCommit

SpecMarkRace == Init /\ [][NextMarkRace]_vars

\* Two workers creating overrides at the same time, and removals served in
\* between.
RaceCreateLookup ==
    \E w \in Workers, g \in GuardIds, sh \in Shifts, d \in Days :
        create_lookup(w, Supervisor, g, sh, 0, "cover", d)

RaceCreateCommit == \E w \in Workers : create_commit(w)

NextOverrideRace ==
    \/ RaceCreateLookup
    \/ RaceCreateCommit
    \/ RemoveOverrideRequest({Supervisor})

SpecOverrideRace == Init /\ [][NextOverrideRace]_vars

\* Removals.  A supervisor creates overrides for today and tomorrow; they
\* are removed, by callers who may and who may not, as the days pass.
RemovalCreate ==
    \E g \in GuardIds, sh \in Shifts, l \in LocationIds \cup {0}, d \in Days :
        /\ create_shift_override(Supervisor, g, sh, l, "cover", d)
        /\ last' = create_shift_override_response(Supervisor, g, sh, l, "cover", d)
        /\ UNCHANGED <<comments, inflight, notifications>>

NextRemoval ==
    \/ RemovalCreate
    \/ RemoveOverrideRequest(GateSessions)
    \/ Midnight

SpecRemoval == Init /\ [][NextRemoval]_vars

\* Comments on guards, added and deleted by callers with and without a
\* login; the response records who asked and for which row.
CommentSessions == {Anonymous, Administrator, Supervisor, SupportOfficer}

AddCommentRequest ==
    \E sess \in CommentSessions, g \in GuardIds \cup {0} :
        /\ add_guard_comment(sess, g)
        /\ last' = Response("add_comment", add_guard_comment_code(sess, g),
                            <<sess.username, g>>)
        /\ UNCHANGED <<inflight, notifications>>

DeleteCommentRequest ==
    \E sess \in CommentSessions, c \in 1..MaxComments :
        /\ delete_guard_comment(sess, c)
        /\ last' = Response("delete_comment", delete_guard_comment_code(sess, c),
                            <<sess.username, c>>)
        /\ UNCHANGED <<inflight, notifications>>

NextComments ==
    \/ AddCommentRequest
    \/ DeleteCommentRequest

SpecComments == Init /\ [][NextComments]_vars

\* Overrides while the administrator moves guards to other homes.
NextSnapshot ==
    \/ CreateOverrideRequest({Supervisor}, {"cover"}, {today})
    \/ RemoveOverrideRequest({Supervisor})
    \/ UpdateGuardRequest(AdminSessions)

SpecSnapshot == Init /\ [][NextSnapshot]_vars

\* Marking and the scheduled overdue check.  The supervisor marks single
\* guards and whole locations; the check runs at any time of the day, before
\* or after the overdue time of each shift (the day shift's comes first).
DueTimes ==
    { due \in [Shifts -> BOOLEAN] : due["night"] => due["day"] }

NotifyMark ==
    \E g \in GuardIds, sh \in Shifts :
        /\ mark_attendance(Supervisor, g, "present", sh, "")
        /\ last' = mark_attendance_response(Supervisor, g, sh)
        /\ UNCHANGED <<comments, inflight, notifications>>

NotifyBulk ==
    \E l \in LocationIds, sh \in Shifts :
        \E pick \in AttendancePicks(sh) :
            /\ bulk_mark_attendance(Supervisor, l, sh, "absent", pick)
            /\ last' = bulk_mark_response(Supervisor, l, sh, "absent", pick)
            /\ UNCHANGED <<comments, inflight, notifications>>

OverdueCheck ==
    \E minutes_overdue \in {30, 120}, due \in DueTimes :
        /\ notify_attendance_overdue(minutes_overdue, due)
        /\ last' = Response("overdue", 0, <<due["day"], due["night"]>>)
        /\ UNCHANGED <<comments, inflight>>

NextNotify ==
    \/ NotifyMark
    \/ NotifyBulk
    \/ OverdueCheck
    \/ Midnight

SpecNotify == Init /\ [][NextNotify]_vars

\* Bulk marks on a day with overrides, while locations go in and out of
\* rotation.
StaticBulk ==
    \E l \in LocationIds, sh \in Shifts :
        \E pick \in AttendancePicks(sh) :
            /\ bulk_mark_attendance(Supervisor, l, sh, "present", pick)
            /\ last' = bulk_mark_response(Supervisor, l, sh, "present", pick)
            /\ UNCHANGED <<comments, inflight, notifications>>

NextStatic ==
    \/ CreateOverrideRequest({Supervisor}, {"cover"}, {today})
    \/ StaticBulk
    \/ ToggleLocationRequest(AdminSessions)

SpecStatic == Init /\ [][NextStatic]_vars

\* =================================================================== claims
\* ------------------------------------------------- the attendance ledger

\* C1: after any sequence of single marks, bulk marks, administrator deletes
\* and administrator restores, every (guard, date, shift) key has at most one
\* live Attendance row.
C1_OneRecordPerKey ==
    \A g \in GuardIds, d \in Days, s \in Shifts : AttendanceCount(g, d, s) <= 1

\* C2: when a successful mark of (g, today, s) is followed at once by a
\* second authorized mark of the same key, the second one is accepted and
\* leaves exactly one row for the key, holding the status, the notes and the
\* marker of the second call.
C2_SecondMarkWins ==
    [][\A sess \in WriterSessions, g \in GuardIds, st \in StatusValues,
          sh \in Shifts, n \in NotesValues :
          ( /\ last.op = "mark"
            /\ last.code = 200
            /\ last.out[2] = g
            /\ last.out[3] = sh
            /\ mark_attendance(sess, g, st, sh, n)
            /\ last' = mark_attendance_response(sess, g, sh) )
          => /\ last'.code = 200
             /\ AttendanceCount(g, today, sh)' = 1
             /\ \A r \in AttendanceFor(g, today, sh)' :
                    r.status = st /\ r.notes = n /\ r.marked_by = sess.role
      ]_vars

\* the guard has a row with a non-empty status for (guard, today, shift)
AlreadyMarked(g, shift) ==
    \E r \in AttendanceFor(g, today, shift) : Truthy(r.status)

\* the live rows of one key, with their multiplicities
RowsOf(g, shift) ==
    [r \in AttendanceFor(g, today, shift) |-> attendance[r]]

\* the guards of the static roster of (location_id, shift)
HomeGuardSet(location_id, shift) ==
    { g \in GuardIds :
        guard[g].location_id = location_id /\ guard[g].shift_type = shift }

\* C8: an accepted bulk mark leaves the rows of every guard that already has
\* a non-empty status as they are and counts those guards as skipped; every
\* other guard of the home roster ends with the given status and counts as
\* marked.
C8_BulkNeverOverwrites ==
    [][last'.op = "bulk" =>
       \A sess \in WriterSessions, l \in LocationIds, sh \in Shifts,
          st \in StatusValues :
          \A pick \in AttendancePicks(sh) :
            ( /\ bulk_mark_code(sess, l) = 200
              /\ bulk_mark_attendance(sess, l, sh, st, pick)
              /\ last' = bulk_mark_response(sess, l, sh, st, pick) )
            => LET home == HomeGuardSet(l, sh)
                   skipped == { g \in home : AlreadyMarked(g, sh) }
               IN  /\ \A g \in skipped : RowsOf(g, sh)' = RowsOf(g, sh)
                   /\ \A g \in home \ skipped :
                        /\ AttendanceFor(g, today, sh)' # {}
                        /\ \A r \in AttendanceFor(g, today, sh)' : r.status = st
                   /\ last'.out = <<Cardinality(home \ skipped), Cardinality(skipped)>>
      ]_vars

\* ---------------------------------------------------------- the overrides

\* every entry of guard g in any roster of today shows the override
\* (shift, reason), and g is a temporary guard only at (loc, shift)
RosterReflects(g, shift, loc, reason) ==
    \A l2 \in LocationIds, s2 \in Shifts :
        \A op \in OverridePicks, ap \in AttendancePicks(s2) :
            LET r == get_guards(Supervisor, l2, s2, op, ap)
            IN  \A k \in 1..Len(r.body) :
                    r.body[k].id = g =>
                        /\ r.body[k].has_override
                        /\ r.body[k].current_shift = shift
                        /\ r.body[k].override_reason = reason
                        /\ r.body[k].is_temporary => (l2 = loc /\ s2 = shift)

\* the rosters of today show, for every guard with an active override, that
\* override and no other
RosterShowsOverride ==
    \A g \in GuardIds :
        \A i \in ActiveOverrides(g, today) :
            RosterReflects(g, overrides[i].override_shift,
                           overrides[i].override_location_id, overrides[i].reason)

\* an authorized create for a (guard, date) that has an active override
\* rewrites that row and nothing else
UpdatesInPlace(sess, g, sh, l, rs, d) ==
    /\ Len(overrides') = Len(overrides)
    /\ \E i \in ActiveOverrides(g, d) :
          /\ overrides'[i] =
                [overrides[i] EXCEPT !.override_shift = sh,
                                     !.override_location_id =
                                        IF l = 0 THEN guard[g].location_id ELSE l,
                                     !.reason = rs,
                                     !.created_by = sess.username]
          /\ \A j \in 1..Len(overrides) : j # i => overrides'[j] = overrides[j]

\* C3: under create and remove calls there is never more than one active
\* override per (guard, date); a create for a (guard, date) with an active
\* override updates its shift, location, reason and creator in place,
\* inserts no row, and the rosters resolved afterwards show only the latest
\* override.
C3_OneActiveOverride ==
    /\ [](\A g \in GuardIds, d \in Days : Cardinality(ActiveOverrides(g, d)) <= 1)
    /\ []RosterShowsOverride
    /\ [][(last'.op = "create" /\ last'.code = 200) =>
           \A g \in GuardIds, d \in Days :
             (last'.out[3] = g /\ last'.out[7] = d /\ ActiveOverrides(g, d) # {}) =>
               \A sess \in WriterSessions, sh \in Shifts,
                  l \in LocationIds \cup {0}, rs \in ReasonValues :
                  ( /\ last'.out[2] = sess.username
                    /\ last'.out[4] = sh
                    /\ last'.out[5] = l
                    /\ last'.out[6] = rs
                    /\ create_shift_override(sess, g, sh, l, rs, d) )
                  => UpdatesInPlace(sess, g, sh, l, rs, d)
         ]_vars

\* an override was created for a (guard, date) that already had one
C3_Witness ==
    /\ last.op = "create"
    /\ last.code = 200
    /\ last.out[1] = "updated"
    /\ ActiveOverrides(last.out[3], today) # {}

\* ------------------------------------------------------------- the roster

\* the answers GET /api/guards/<location_id>/<shift> can give a supervisor
RosterAnswers(location_id, shift) ==
    { get_guards(Supervisor, location_id, shift, op, ap) :
        op \in OverridePicks, ap \in AttendancePicks(shift) }

\* the positions of guard g in the body of an answer
EntriesOf(g, r) == { k \in 1..Len(r.body) : r.body[k].id = g }

\* guard g appears in a roster of (location_id, shift) today
Listed(g, location_id, shift) ==
    \E r \in RosterAnswers(location_id, shift) :
        r.code = 200 /\ EntriesOf(g, r) # {}

\* C4: no guard appears today in the roster of more than one
\* (location, shift) pair.
C4_OneAssignmentPerDay ==
    \A g \in GuardIds :
        Cardinality({ p \in LocationIds \X Shifts : Listed(g, p[1], p[2]) }) <= 1

\* every roster of the override's (location, shift) is served and lists the
\* guard as a temporary guard with the original location attached
ListedAsTemporary(g, i) ==
    \A r \in RosterAnswers(overrides[i].override_location_id,
                           overrides[i].override_shift) :
        /\ r.code = 200
        /\ \E k \in EntriesOf(g, r) :
              /\ r.body[k].is_temporary
              /\ r.body[k].original_location = overrides[i].original_location_id

\* the guard is in no roster of its home (location, shift)
NotListedAtHome(g) == ~Listed(g, guard[g].location_id, guard[g].shift_type)

\* C5 as stated: a guard with an active override today to another location
\* is listed, as a temporary guard with the original location attached, in
\* the roster of the override's (location, shift), and is not listed in the
\* roster of its home (location, shift).
C5_RelocatedGuardListed ==
    \A g \in GuardIds :
        \A i \in ActiveOverrides(g, today) :
            overrides[i].override_location_id # guard[g].location_id
            => ListedAsTemporary(g, i) /\ NotListedAtHome(g)

\* C5 amended: the guard is listed in the roster of the override's
\* (location, shift) provided that the override's location is accessible;
\* it is never listed in the roster of its home (location, shift).
C5_RelocatedGuardListedIfAccessible ==
    \A g \in GuardIds :
        \A i \in ActiveOverrides(g, today) :
            overrides[i].override_location_id # guard[g].location_id
            => /\ location[overrides[i].override_location_id].is_accessible
                    => ListedAsTemporary(g, i)
               /\ NotListedAtHome(g)

\* a guard relocated for today between two accessible locations
C5_Witness ==
    \E g \in GuardIds :
        \E i \in ActiveOverrides(g, today) :
            /\ overrides[i].override_location_id # guard[g].location_id
            /\ location[overrides[i].override_location_id].is_accessible
            /\ location[guard[g].location_id].is_accessible
            /\ ListedAsTemporary(g, i)

\* every roster of the guard's home (location, shift) is served and lists
\* the guard exactly once, as a regular guard on its default shift
ListedOnceAtHome(g) ==
    \A r \in RosterAnswers(guard[g].location_id, guard[g].shift_type) :
        /\ r.code = 200
        /\ Cardinality(EntriesOf(g, r)) = 1
        /\ \A k \in EntriesOf(g, r) :
              /\ ~r.body[k].is_temporary
              /\ ~r.body[k].has_override
              /\ r.body[k].current_shift = r.body[k].default_shift
              /\ r.body[k].default_shift = guard[g].shift_type

\* the guard is in no roster but those of its home (location, shift)
ListedNowhereElse(g) ==
    \A l \in LocationIds, s \in Shifts :
        (l # guard[g].location_id \/ s # guard[g].shift_type) => ~Listed(g, l, s)

C7_OnlyActiveGuardsListed ==
    \A g \in GuardIds :
        IF guard[g].is_active
        THEN location[guard[g].location_id].is_accessible
                => Listed(g, guard[g].location_id, guard[g].shift_type)
        ELSE ~Listed(g, guard[g].location_id, guard[g].shift_type)

\* --------------------------------------------------------- a day of duty

\* the locations the override lookup can resolve guard g to today
CurrentLocations(g) ==
    { IF op[g] = 0 THEN guard[g].location_id
      ELSE overrides[op[g]].override_location_id : op \in OverridePicks }

\* C9: a mark by a writer is accepted when the guard's current location
\* (the override's location when there is an active override today, the
\* home location otherwise) is accessible, and is refused with 403 without
\* any write when it is not.
C9_MarkGatedOnCurrentLocation ==
    [][last'.op = "mark" =>
       \A sess \in WriterSessions, g \in GuardIds, st \in StatusValues,
          sh \in Shifts, n \in NotesValues :
          ( /\ mark_attendance(sess, g, st, sh, n)
            /\ last' = mark_attendance_response(sess, g, sh) )
          => \A c \in CurrentLocations(g) :
                IF location[c].is_accessible
                THEN last'.code = 200
                ELSE last'.code = 403 /\ attendance' = attendance
      ]_vars

\* C10: once a guard overridden for today to another location on its own
\* shift has been marked present, the roster of the override's location
\* shows the guard as present, and no attendance query filtered to the
\* guard's home location returns the guard's record of today.
C10_RecordFollowsOverride ==
    (last.op = "mark" /\ last.code = 200) =>
        LET g == last.out[2]
            sh == last.out[3]
            A == guard[g].location_id
        IN  \A i \in ActiveOverrides(g, today) :
                LET B == overrides[i].override_location_id
                IN  ( /\ B # A
                      /\ overrides[i].override_shift = sh
                      /\ guard[g].shift_type = sh
                      /\ \E r \in AttendanceFor(g, today, sh) : r.status = "present" )
                    => /\ location[B].is_accessible =>
                            \A r \in RosterAnswers(B, sh) :
                                \E k \in EntriesOf(g, r) :
                                    r.body[k].status = "present"
                       /\ \A r \in view_attendance(A) :
                            ~(r.guard_id = g /\ r.date = today)

\* ------------------------------------------------------------- the gates

\* what the role gate answers to a caller it turns away
DeniedCode(sess) == IF sess.logged_in THEN 403 ELSE 401

\* the request was answered with the gate's code and wrote nothing
Denied(sess) ==
    /\ last'.code = DeniedCode(sess)
    /\ attendance' = attendance
    /\ overrides' = overrides

\* C11: a mark, bulk mark, create-override or remove-override request by a
\* caller that is not logged in is answered 401, one by a logged-in caller
\* whose role is not a write role is answered 403, and neither changes the
\* Attendance or ShiftOverride table; a caller that is not logged in gets
\* 401 whatever its role is.
C11_RoleGate ==
    [][\A sess \in GateSessions \ WriterSessions :
         /\ last'.op = "mark" =>
              \A g \in GuardIds \cup {0}, sh \in Shifts :
                ( /\ last' = mark_attendance_response(sess, g, sh)
                  /\ mark_attendance(sess, g, "present", sh, "") )
                => Denied(sess)
         /\ last'.op = "bulk" =>
              \A l \in LocationIds, sh \in Shifts :
                \A pick \in AttendancePicks(sh) :
                  ( /\ last' = bulk_mark_response(sess, l, sh, "absent", pick)
                    /\ bulk_mark_attendance(sess, l, sh, "absent", pick) )
                  => Denied(sess)
         /\ last'.op = "create" =>
              \A g \in GuardIds, sh \in Shifts :
                ( /\ last' = create_shift_override_response(sess, g, sh, 0, "cover", today)
                  /\ create_shift_override(sess, g, sh, 0, "cover", today) )
                => Denied(sess)
         /\ last'.op = "remove" =>
              \A g \in GuardIds :
                ( /\ last' = remove_shift_override_response(sess, g)
                  /\ remove_shift_override(sess, g) )
                => Denied(sess)
      ]_vars

\* a request was turned away as unauthenticated while both tables had rows
C11_Witness ==
    /\ last.op \in {"mark", "bulk", "create", "remove"}
    /\ last.code = 401
    /\ attendance # EmptyBag
    /\ \E g \in GuardIds : ActiveOverrides(g, today) # {}

\* C14: a mark by a writer for a guard id that matches no guard is answered
\* 404 and writes no Attendance row.
C14_UnknownGuardNotFound ==
    [][last'.op = "mark" =>
       \A sess \in WriterSessions, sh \in Shifts :
         ( /\ last' = mark_attendance_response(sess, 0, sh)
           /\ mark_attendance(sess, 0, "present", sh, "") )
         => last'.code = 404 /\ attendance' = attendance
      ]_vars

\* C15: a mark, bulk mark or create-override request by a writer whose
\* payload lacks a required key is answered 400 and changes neither the
\* Attendance nor the ShiftOverride table.
C15_MissingFieldIsValidation ==
    [][last'.op \in {"mark", "bulk", "create"} =>
       \A sess \in WriterSessions :
         \A fields \in MalformedPayloads(last'.op) :
            malformed_request(last'.op, sess, fields)
            => /\ last'.code = 400
               /\ attendance' = attendance
               /\ overrides' = overrides
      ]_vars

\* C12: when two requests that mark attendance (single marks, or a single
\* mark and a bulk mark) both looked a (guard, date, shift) key up before
\* either committed, both found no row and both inserted one: the key then
\* has two Attendance rows.
C12_BothInsert ==
    \A w1 \in Workers : \A w2 \in Workers \ {w1} :
        (inflight[w1].pc = "done" /\ inflight[w2].pc = "done")
            => \A k \in inflight[w1].inserted \cap inflight[w2].inserted :
                   AttendanceCount(k[1], k[2], k[3]) >= 2

\* a single mark and a bulk mark have both inserted a row for one key
C12_Witness ==
    \E w1 \in Workers : \E w2 \in Workers \ {w1} :
        /\ inflight[w1].pc = "done" /\ inflight[w1].op = "mark"
        /\ inflight[w2].pc = "done" /\ inflight[w2].op = "bulk"
        /\ \E k \in inflight[w1].inserted \cap inflight[w2].inserted :
               AttendanceCount(k[1], k[2], k[3]) = 2

\* the ShiftOverride rows of a guard and a date, active or not
OverrideRows(g, d) ==
    { i \in 1..Len(overrides) : overrides[i].guard_id = g /\ overrides[i].date = d }

\* both workers have committed a create that found no active override for
\* the guard and the date
BothInserted(g, d) ==
    \A w \in Workers :
        /\ inflight[w].pc = "done" /\ inflight[w].op = "create"
        /\ <<g, d>> \in inflight[w].inserted

\* a step of remove_shift_override that deactivated a row
RemovedOne ==
    /\ inflight' = inflight
    /\ overrides' # overrides

\* C13: when two create-override requests for one (guard, date) both looked
\* the active override up before either committed, both found none and both
\* inserted a row: the pair has two rows, and each insert added an active
\* one.  A removal deactivates exactly one row, so it leaves a guard that
\* had two active overrides still overridden.
C13_BothInsertOneRemoved ==
    /\ [](\A g \in GuardIds, d \in Days :
            BothInserted(g, d) => Cardinality(OverrideRows(g, d)) >= 2)
    /\ [][/\ \A w \in Workers, g \in GuardIds, d \in Days :
                (/\ Busy(w) /\ inflight'[w].pc = "done" /\ inflight[w].seen = 0
                 /\ inflight[w].guard_id = g /\ inflight[w].date = d)
                    => Cardinality(ActiveOverrides(g, d)')
                       = Cardinality(ActiveOverrides(g, d)) + 1
          /\ RemovedOne =>
                /\ \E i \in 1..Len(overrides) :
                       /\ overrides[i].is_active
                       /\ overrides' = [overrides EXCEPT ![i].is_active = FALSE]
                /\ \A g \in GuardIds :
                       Cardinality(ActiveOverrides(g, today)) >= 2
                           => ActiveOverrides(g, today)' # {}]_vars

\* both creates inserted, one removal was served, and the guard is still
\* overridden today
C13_Witness ==
    \E g \in GuardIds :
        /\ BothInserted(g, today)
        /\ last.op = "remove" /\ last.code = 200
        /\ Cardinality(OverrideRows(g, today)) = 2
        /\ Cardinality(ActiveOverrides(g, today)) = 1

\* C16: a removal asked by a writer for a guard without an active override
\* for the date (the server's current day) is answered 404, changes no
\* ShiftOverride row, and the rosters resolved before and after it are the
\* same.
C16_RemoveWithoutOverride ==
    [][last'.op = "remove" =>
        \A sess \in WriterSessions, g \in GuardIds :
            ( /\ ActiveOverrides(g, today) = {}
              /\ last' = remove_shift_override_response(sess, g)
              /\ remove_shift_override(sess, g) )
            => /\ last'.code = 404
               /\ overrides' = overrides
               /\ \A l \in LocationIds, sh \in Shifts :
                      RosterAnswers(l, sh)' = RosterAnswers(l, sh)
      ]_vars

\* a removal was answered 404 while overrides are active: another guard's
\* for today, or the same guard's for another date
C16_Witness ==
    /\ last.op = "remove"
    /\ last.code = 404
    /\ \E g \in GuardIds : ActiveOverrides(g, today) = {}
    /\ \E i \in 1..Len(overrides) : overrides[i].is_active

\* C17: a removal asked by a writer for a guard whose only active overrides
\* are for one date, whichever date that is, is answered 200 and
\* deactivates an active override of that guard and date, and leaves the
\* rows of every other date as they were.
C17_RemoveForAnyDate ==
    [][last'.op = "remove" =>
        \A sess \in WriterSessions, g \in GuardIds, d \in Days :
            ( /\ ActiveOverrides(g, d) # {}
              /\ \A e \in Days \ {d} : ActiveOverrides(g, e) = {}
              /\ last' = remove_shift_override_response(sess, g)
              /\ remove_shift_override(sess, g) )
            => /\ last'.code = 200
               /\ Len(overrides') = Len(overrides)
               /\ \E i \in ActiveOverrides(g, d) : ~overrides'[i].is_active
               /\ \A j \in 1..Len(overrides) :
                      overrides[j].date # d => overrides'[j] = overrides[j]
      ]_vars

\* C18: a delete of a comment by a logged-in caller who did not create it is
\* answered 403 and leaves the row as it was, an active one active; a
\* comment goes from active to inactive only in a delete asked by its
\* creator; no row is ever removed or given another guard or creator.
C18_OnlyCreatorDeletes ==
    [][/\ last'.op = "delete_comment" =>
            \A sess \in CommentSessions, c \in 1..Len(comments) :
                ( /\ last'.out = <<sess.username, c>>
                  /\ delete_guard_comment(sess, c)
                  /\ sess.logged_in
                  /\ comments[c].created_by # sess.username )
                => /\ last'.code = 403
                   /\ comments' = comments
       /\ Len(comments') >= Len(comments)
       /\ \A c \in 1..Len(comments) :
            /\ comments'[c].guard_id = comments[c].guard_id
            /\ comments'[c].created_by = comments[c].created_by
            /\ (comments[c].is_active /\ ~comments'[c].is_active)
                  => /\ last'.op = "delete_comment"
                     /\ last'.code = 200
                     /\ last'.out = <<comments[c].created_by, c>>
      ]_vars

\* a logged-in caller asked to delete an active comment of another user
C18_Witness ==
    /\ last.op = "delete_comment"
    /\ last.code = 403
    /\ last.out[2] \in 1..Len(comments)
    /\ comments[last.out[2]].is_active
    /\ comments[last.out[2]].created_by # last.out[1]
    /\ \E c \in 1..Len(comments) : ~comments[c].is_active

\* C19: no step removes a ShiftOverride row or changes the guard or the
\* date of one: the table only grows.  A row goes from active to inactive
\* only in a successful removal, which changes nothing else, and never
\* back.  A create for a (guard, date) without an active override, such as
\* one whose override was removed, appends an active row and keeps every
\* earlier row, the deactivated one included.
C19_RowsOnlyDeactivated ==
    [][/\ Len(overrides') >= Len(overrides)
       /\ \A i \in 1..Len(overrides) :
            /\ overrides'[i].guard_id = overrides[i].guard_id
            /\ overrides'[i].date = overrides[i].date
            /\ overrides'[i].is_active => overrides[i].is_active
            /\ (overrides[i].is_active /\ ~overrides'[i].is_active)
                  => /\ last'.op = "remove"
                     /\ last'.code = 200
                     /\ overrides' = [overrides EXCEPT ![i].is_active = FALSE]
       /\ (last'.op = "create" /\ last'.code = 200) =>
            \A g \in GuardIds, d \in Days :
              (last'.out[3] = g /\ last'.out[7] = d /\ ActiveOverrides(g, d) = {}) =>
                \A sh \in Shifts, l \in LocationIds \cup {0} :
                  ( /\ last'.out[4] = sh
                    /\ last'.out[5] = l
                    /\ create_shift_override(Supervisor, g, sh, l, "cover", d) )
                  => /\ Len(overrides') = Len(overrides) + 1
                     /\ SubSeq(overrides', 1, Len(overrides)) = overrides
                     /\ overrides'[Len(overrides')].guard_id = g
                     /\ overrides'[Len(overrides')].date = d
                     /\ overrides'[Len(overrides')].is_active
      ]_vars

\* an override was created for a guard and today after an earlier one for
\* them was removed: the deactivated row and the new row are both stored
C19_Witness ==
    /\ last.op = "create"
    /\ last.code = 200
    /\ last.out[1] = "inserted"
    /\ last.out[7] = today
    /\ \E i \in OverrideRows(last.out[3], today) : ~overrides[i].is_active
    /\ \E j \in OverrideRows(last.out[3], today) : overrides[j].is_active

\* C20: the original shift and the original location of an override are
\* those of the guard's home when the row is inserted, and no later step
\* changes them: not an update in place, not a removal, not a change of the
\* guard's home by the administrator.
C20_OriginalsAreSnapshots ==
    [][/\ \A i \in 1..Len(overrides) :
            /\ i <= Len(overrides')
            /\ overrides'[i].original_shift = overrides[i].original_shift
            /\ overrides'[i].original_location_id = overrides[i].original_location_id
       /\ Len(overrides') > Len(overrides) =>
            /\ overrides'[Len(overrides')].original_shift
                  = guard[overrides'[Len(overrides')].guard_id].shift_type
            /\ overrides'[Len(overrides')].original_location_id
                  = guard[overrides'[Len(overrides')].guard_id].location_id
      ]_vars

\* an override was updated in place after the administrator gave the guard
\* another home: its originals are still those of the old home
C20_Witness ==
    /\ last.op = "create"
    /\ last.code = 200
    /\ last.out[1] = "updated"
    /\ \E i \in ActiveOverrides(last.out[3], today) :
          /\ overrides[i].original_shift # guard[last.out[3]].shift_type
          /\ overrides[i].original_location_id # guard[last.out[3]].location_id
    /\ \E j \in 1..Len(overrides) : ~overrides[j].is_active

\* ------------------------------------------------- dates and visibility

\* the answers GET /api/guard-shift-info/<guard_id> can give
ShiftInfoAnswers(g) ==
    { get_guard_shift_info(Supervisor, g, op[g]) : op \in OverridePicks }

\* wherever guard g is resolved today it is resolved to its home
\* assignment: a regular entry without override in a roster of the home
\* (location, shift), and the default shift and location as the current ones
ResolvedToHome(g) ==
    /\ \A l \in LocationIds, s \in Shifts :
         \A r \in RosterAnswers(l, s) :
           \A k \in EntriesOf(g, r) :
              /\ l = guard[g].location_id
              /\ s = guard[g].shift_type
              /\ ~r.body[k].is_temporary
              /\ ~r.body[k].has_override
              /\ r.body[k].current_shift = guard[g].shift_type
    /\ \A a \in ShiftInfoAnswers(g) :
          /\ ~a.body.has_override
          /\ a.body.current_shift = guard[g].shift_type
          /\ a.body.current_location = guard[g].location_id

\* the shift information of guard g shows an override dated today
ResolvedToOverride(g) ==
    \A a \in ShiftInfoAnswers(g) :
        /\ a.body.has_override
        /\ \E i \in ActiveOverrides(g, today) :
              a.body.current_shift = overrides[i].override_shift

\* C21: a change of the current date changes no ShiftOverride row, so no
\* override expires; a guard whose active overrides are all for other dates
\* than today is resolved to its home assignment by the roster and by the
\* shift information, and a guard with an active override dated today is
\* shown with it.
C21_OverrideBoundToItsDate ==
    /\ [][today' # today => overrides' = overrides]_vars
    /\ [](\A g \in GuardIds :
            IF ActiveOverrides(g, today) = {} THEN ResolvedToHome(g)
            ELSE ResolvedToOverride(g))

\* the day after an override's date: the override is still active, and the
\* guard, who has none for today, is listed at home without it
C21_Witness ==
    \E g \in GuardIds :
        /\ ActiveOverrides(g, today) = {}
        /\ \E d \in Days : d < today /\ \E i \in ActiveOverrides(g, d) :
              overrides[i].override_shift # guard[g].shift_type
        /\ Listed(g, guard[g].location_id, guard[g].shift_type)
        /\ ResolvedToHome(g)

\* ------------------------------------------------------- notifications

\* the supervisor has a record of today for the shift
SubmittedToday(shift) ==
    \E r \in BagToSet(attendance) : r.date = today /\ r.shift = shift

\* C22: a single mark that is the first submission of today for its shift
\* adds an 'attendance submitted' notification; a mark for a shift that was
\* already submitted adds none.
C22_FirstSubmissionEmitsEvent ==
    [][(last'.op = "mark" /\ last'.code = 200 /\ attendance' # attendance) =>
         \A sh \in Shifts :
            last'.out[3] = sh =>
              IF SubmittedToday(sh) THEN notifications' = notifications
              ELSE /\ Len(notifications') > Len(notifications)
                   /\ \E k \in (Len(notifications) + 1)..Len(notifications') :
                         /\ notifications'[k].reference_type = "attendance_summary"
                         /\ notifications'[k].shift = sh
      ]_vars

\* C30: the overdue check adds no overdue notification for a supervisor and
\* a shift for which a record of today marked by a supervisor is stored.
C30_NoOverdueAfterMarking ==
    [][\A k \in (Len(notifications) + 1)..Len(notifications') :
          (notifications'[k].notification_type \in {"alert", "urgent"}
           /\ notifications'[k].category = "attendance")
          => MarkedByCount(notifications'[k].shift, Supervisor.role) = 0
      ]_vars

\* --------------------------------------------------------- who may read

\* C23: every logged-in caller, whatever the role, is given the roster of
\* an accessible location.
C23_RosterReadAny ==
    \A sess \in Sessions :
        sess.logged_in =>
            \A l \in LocationIds, sh \in Shifts :
                location[l].is_accessible =>
                    \A op \in OverridePicks, ap \in AttendancePicks(sh) :
                        /\ get_guards(sess, l, sh, op, ap).code = 200
                        /\ get_guards(sess, l, sh, op, ap).body
                              = RosterBody(l, sh, op, ap)

\* C24: the shift information of a guard is refused with 401, without any
\* data, to a caller who is not logged in; a logged-in caller is given the
\* default assignment and the current one, which is that of the active
\* override for today when there is one and the default otherwise.
C24_ShiftInfoNeedsLogin ==
    \A sess \in Sessions, g \in GuardIds, op \in OverridePicks :
        LET a == get_guard_shift_info(sess, g, op[g])
        IN  IF ~sess.logged_in THEN a.code = 401 /\ a.body = <<>>
            ELSE /\ a.code = 200
                 /\ a.body.default_shift = guard[g].shift_type
                 /\ a.body.default_location = guard[g].location_id
                 /\ IF ActiveOverrides(g, today) = {}
                    THEN /\ a.body.current_shift = guard[g].shift_type
                         /\ a.body.current_location = guard[g].location_id
                    ELSE \E i \in ActiveOverrides(g, today) :
                            /\ a.body.current_shift = overrides[i].override_shift
                            /\ a.body.current_location = overrides[i].override_location_id

\* ------------------------------------------- locations out of rotation

\* C25: for a location that is not accessible, every roster request of a
\* logged-in caller is answered 403 with no list at all, and every bulk
\* mark is answered 403 and leaves the Attendance table as it was, for both
\* shifts, whichever guards have their home there and whichever overrides
\* point there.
C25_InaccessibleIsForbidden ==
    /\ [](\A sess \in Sessions, l \in LocationIds, sh \in Shifts :
            (sess.logged_in /\ ~location[l].is_accessible) =>
                \A op \in OverridePicks, ap \in AttendancePicks(sh) :
                    get_guards(sess, l, sh, op, ap) = [code |-> 403, body |-> <<>>])
    /\ [][last'.op = "bulk" =>
            \A l \in LocationIds, sh \in Shifts :
                ~location[l].is_accessible =>
                    \A pick \in AttendancePicks(sh) :
                        ( /\ bulk_mark_attendance(Supervisor, l, sh, "present", pick)
                          /\ last' = bulk_mark_response(Supervisor, l, sh, "present", pick) )
                        => /\ last'.code = 403
                           /\ attendance' = attendance
         ]_vars

\* a bulk mark was refused for a location out of rotation that is the home
\* of a guard and the target of an override of today
C25_Witness ==
    /\ last.op = "bulk"
    /\ last.code = 403
    /\ \E l \in LocationIds :
          /\ ~location[l].is_accessible
          /\ \E g \in GuardIds : guard[g].location_id = l
          /\ \E i \in 1..Len(overrides) :
                /\ overrides[i].override_location_id = l
                /\ overrides[i].is_active
                /\ overrides[i].date = today

\* C26: an accepted bulk mark for (location, shift) considers exactly the
\* guards whose home is (location, shift): the marked and the skipped add up
\* to their number, each of them has a record of today for the shift
\* afterwards, relocated away or not, and the records of every other guard,
\* sent there by an override or not, are as they were.
C26_BulkOverStaticRoster ==
    [][(last'.op = "bulk" /\ last'.code = 200) =>
        \A l \in LocationIds, sh \in Shifts :
            \A pick \in AttendancePicks(sh) :
                ( /\ bulk_mark_code(Supervisor, l) = 200
                  /\ bulk_mark_attendance(Supervisor, l, sh, "present", pick)
                  /\ last' = bulk_mark_response(Supervisor, l, sh, "present", pick) )
                => /\ last'.out[1] + last'.out[2] = Cardinality(HomeGuardSet(l, sh))
                   /\ \A g \in HomeGuardSet(l, sh) :
                         AttendanceFor(g, today, sh)' # {}
                   /\ \A g \in GuardIds \ HomeGuardSet(l, sh) :
                         \A s2 \in Shifts : RowsOf(g, s2)' = RowsOf(g, s2)
      ]_vars

\* after a bulk mark, a guard relocated away for today has a record for its
\* home shift, and a guard sent to that (location, shift) for today has none
C26_Witness ==
    /\ last.op = "bulk"
    /\ last.code = 200
    /\ \E g1 \in GuardIds : \E g2 \in GuardIds \ {g1} :
          /\ \E i \in ActiveOverrides(g1, today) :
                overrides[i].override_location_id # guard[g1].location_id
          /\ AttendanceFor(g1, today, guard[g1].shift_type) # {}
          /\ \E j \in ActiveOverrides(g2, today) :
                /\ overrides[j].override_location_id = guard[g1].location_id
                /\ overrides[j].override_shift = guard[g1].shift_type
          /\ AttendanceFor(g2, today, guard[g1].shift_type) = {}

\* ------------------------------------------------- the shape of a roster

\* C27: in every state, those with several active overrides for a guard
\* included, no roster answer lists a guard twice, and no temporary entry
\* comes before a regular one.
C27_OnceAndRegularsFirst ==
    \A l \in LocationIds, sh \in Shifts :
        \A r \in RosterAnswers(l, sh) :
            \A j \in 1..Len(r.body), k \in 1..Len(r.body) :
                j < k => /\ r.body[j].id # r.body[k].id
                         /\ r.body[j].is_temporary => r.body[k].is_temporary

\* a guard with two active overrides of today to the same (location, shift)
\* is listed once in every roster of it, after a regular guard
C27_Witness ==
    \E g \in GuardIds, l \in LocationIds, sh \in Shifts :
        /\ Cardinality(ActiveOverrides(g, today)) >= 2
        /\ \A i \in ActiveOverrides(g, today) : IsTempOverride(i, l, sh)
        /\ \A r \in RosterAnswers(l, sh) :
              /\ r.code = 200
              /\ Cardinality(EntriesOf(g, r)) = 1
              /\ Len(r.body) >= 2

\* C28: in every roster entry with override metadata, regular or temporary,
\* is_location_changed tells whether the original location of the guard's
\* active override for today differs from its override location, and
\* is_shift_changed whether the original shift differs from the override
\* shift.
C28_ChangeFlagsAreExact ==
    \A l \in LocationIds, sh \in Shifts :
        \A r \in RosterAnswers(l, sh) :
            \A k \in 1..Len(r.body) :
                r.body[k].has_override =>
                    \A i \in ActiveOverrides(r.body[k].id, today) :
                        /\ r.body[k].is_location_changed
                              = (overrides[i].original_location_id
                                    # overrides[i].override_location_id)
                        /\ r.body[k].is_shift_changed
                              = (overrides[i].original_shift
                                    # overrides[i].override_shift)

\* C29: every guard whose home location is accessible is listed today in a
\* roster of some accessible (location, shift), and no override row points
\* to a location that is not accessible.
C29_EveryGuardListedSomewhere ==
    /\ \A g \in GuardIds :
          location[guard[g].location_id].is_accessible =>
              \E l \in LocationIds, sh \in Shifts :
                  location[l].is_accessible /\ Listed(g, l, sh)
    /\ \A i \in 1..Len(overrides) :
          /\ overrides[i].override_location_id \in LocationIds
          /\ location[overrides[i].override_location_id].is_accessible

====
